---------------------------- MODULE Spec2Model ----------------------------
(***************************************************************************)
(* AquaBill (src/src/app/page.tsx): time parsing, duration and billing     *)
(* arithmetic, the customer, invoice and settings handlers over the        *)
(* per-user document store, the dashboard's fetch, sign-in and sign-out,   *)
(* and the sign-up form (src/src/app/register/page.tsx).                   *)
(*                                                                         *)
(* JavaScript numbers are fixed-point values in thousandths, or NaN:       *)
(*   N(60) is 60, D(16666) is 16.666, NaN is NaN.                          *)
(* A time string is the sequence of the parts that split(':') yields;      *)
(* each part is a decimal numeral, the empty string, or other text.        *)
(* undefined is the sequence of no parts.                                  *)
(***************************************************************************)
EXTENDS Integers, Sequences, FiniteSets, TLC

VARIABLES
    user,               \* useUser().user: NoUser or a uid
    customers,          \* users/{uid}/customers: doc id -> [name, contact]
    pendingAdds,        \* addCustomer promises not yet resolved (doc ids)
    selectedCustomerId, \* App state, Null or a customer id
    view,               \* App state: "invoices" | "settings" | "about"
    invoices,           \* customers/{c}/invoices: <<c, id>> -> invoice doc
    usedIds,            \* the doc ids the store has handed out
    settingsData,       \* users/{uid}/settings/default: the stored keys
    editForms,          \* InvoiceRow.isEditing + EditInvoiceForm.formData
    now,                \* the wall clock read by new Date()
    lastOp,             \* the last handler that ran, its input and outcome
    calc,               \* a call of the pure helpers: inputs and result
    customerToDelete,   \* App state: Null or the customer the dialog is open for
    dashboard,          \* DashboardView state: stats, recentInvoices, isLoading
    fetches,            \* DashboardView.fetchData calls that have not returned
    register,           \* RegisterPage state and the sign-up requests sent
    access,             \* the document paths the app has read or written
    accounts,           \* the stored data of the users not signed in
    customerInvoices,   \* useCollection(invoicesRef).data: the rows, in order
    otherEditForms      \* the edit forms open in another tab of the same user

vars == <<user, customers, pendingAdds, selectedCustomerId, view, invoices,
          usedIds, settingsData, editForms, now, lastOp, calc,
          customerToDelete, dashboard, fetches, register, access, accounts,
          customerInvoices, otherEditForms>>

appVars == <<user, customers, pendingAdds, selectedCustomerId, view, invoices,
             usedIds, settingsData, editForms, now, lastOp,
             customerToDelete, dashboard, fetches, register, access, accounts,
             customerInvoices, otherEditForms>>

-----------------------------------------------------------------------------
(* JavaScript numbers *)

\* Thousandths per unit: 16.666 (defaultSettings.ratePerMinute) has three decimals.
Scale == 1000

NaN == [nan |-> TRUE, v |-> 0]

\* A number given in thousandths.
D(milli) == [nan |-> FALSE, v |-> milli]

\* A whole number.
N(n) == D(n * Scale)

isNaN(x) == x.nan

\* a + b, a - b, a * b
jsAdd(a, b) == IF a.nan \/ b.nan THEN NaN ELSE D(a.v + b.v)

jsSub(a, b) == IF a.nan \/ b.nan THEN NaN ELSE D(a.v - b.v)

\* Of the products taken here one factor is always a whole number (minutes, 60).
jsMul(a, b) ==
    IF a.nan \/ b.nan THEN NaN
    ELSE IF a.v % Scale = 0 THEN D((a.v \div Scale) * b.v)
    ELSE IF b.v % Scale = 0 THEN D(a.v * (b.v \div Scale))
    ELSE D((a.v * b.v) \div Scale)

\* a >= b and a <= b are false when either side is NaN.
jsGeq(a, b) == ~a.nan /\ ~b.nan /\ a.v >= b.v

jsLeq(a, b) == ~a.nan /\ ~b.nan /\ a.v <= b.v

\* x || 0 on a number: NaN and 0 are falsy.
jsOrZero(x) == IF x.nan \/ x.v = 0 THEN N(0) ELSE x

\* Math.max(0, x)
jsMax0(x) == IF x.nan THEN NaN ELSE IF x.v < 0 THEN N(0) ELSE x

\* Math.round: to the nearest whole number, halves towards +infinity.
roundAbout(num) ==
    IF num.nan THEN NaN ELSE N((num.v + (Scale \div 2)) \div Scale)

-----------------------------------------------------------------------------
(* Strings of digits, and time strings *)

\* One piece of text as Number() reads it.
PNum(n) == [k |-> "num", v |-> n]

PEmpty == [k |-> "empty", v |-> 0]

PJunk == [k |-> "junk", v |-> 0]

\* Number(text): "" is 0, a numeral is its value, anything else NaN.
Number(p) == IF p.k = "num" THEN N(p.v) ELSE IF p.k = "empty" THEN N(0) ELSE NaN

\* undefined, "" and "HH:MM"
Undefined == <<>>

EmptyStr == <<PEmpty>>

T(h, m) == <<PNum(h), PNum(m)>>

\* !timeStr: undefined and "" are falsy.
Falsy(timeStr) == timeStr = Undefined \/ timeStr = EmptyStr

MinutesPerHour == 60

HoursPerDay == 24

parseTimeToMinutes_NoGuard(timeStr) ==
    LET h == IF Len(timeStr) >= 1 THEN Number(timeStr[1]) ELSE NaN
        m == IF Len(timeStr) >= 2 THEN Number(timeStr[2]) ELSE NaN
    IN  jsAdd(jsMul(h, N(MinutesPerHour)), m)

parseTimeToMinutes_JunkIsZero(timeStr) ==
    IF Falsy(timeStr) THEN N(0)
    ELSE LET h == jsOrZero(Number(timeStr[1]))
             m == IF Len(timeStr) >= 2 THEN jsOrZero(Number(timeStr[2])) ELSE N(0)
         IN  jsAdd(jsMul(h, N(MinutesPerHour)), m)

\* const [h, m] = timeStr.split(':').map(Number); return h * 60 + m;
\* a missing second part leaves m undefined, and h * 60 + undefined is NaN.
parseTimeToMinutes(timeStr) ==
    IF Falsy(timeStr) THEN N(0)
    ELSE LET h == Number(timeStr[1])
             m == IF Len(timeStr) >= 2 THEN Number(timeStr[2]) ELSE NaN
         IN  jsAdd(jsMul(h, N(MinutesPerHour)), m)

minutesBetween_StrictGt(start, end) ==
    LET s == parseTimeToMinutes(start)
        e == parseTimeToMinutes(end)
        diff == IF jsGeq(e, s) /\ e # s THEN jsSub(e, s)
                ELSE jsSub(jsAdd(e, N(HoursPerDay * MinutesPerHour)), s)
    IN  IF isNaN(s) \/ isNaN(e) THEN N(0) ELSE jsMax0(diff)

minutesBetween(start, end) ==
    LET s == parseTimeToMinutes(start)
        e == parseTimeToMinutes(end)
        diff == IF jsGeq(e, s) THEN jsSub(e, s)
                ELSE jsSub(jsAdd(e, N(HoursPerDay * MinutesPerHour)), s)
    IN  IF isNaN(s) \/ isNaN(e) THEN N(0) ELSE jsMax0(diff)

\* "HH:MM" with 0 <= HH <= 23 and 0 <= MM <= 59.
WellFormed(timeStr) ==
    /\ Len(timeStr) = 2
    /\ timeStr[1].k = "num" /\ timeStr[1].v \in 0..(HoursPerDay - 1)
    /\ timeStr[2].k = "num" /\ timeStr[2].v \in 0..(MinutesPerHour - 1)

\* Minutes since midnight of a well-formed time, as a plain integer.
ClockMinutes(timeStr) == MinutesPerHour * timeStr[1].v + timeStr[2].v

-----------------------------------------------------------------------------
(* The document store and the App component's state *)

NoUser == "none"

\* The users that have an account.
Uids == {"u1", "u2"}

\* The data under users/{uid} of a new account.
EmptyAccount == [customers |-> <<>>, invoices |-> <<>>, settingsData |-> <<>>]

Null == "null"

\* customerToDelete when no customer is to be deleted: useState(null)
NullCustomer == [id |-> Null, name |-> ""]

\* { ...old, ...upd }: the keys of upd replace or extend those of old.
Merge(old, upd) ==
    [k \in (DOMAIN old) \cup (DOMAIN upd) |->
        IF k \in DOMAIN upd THEN upd[k] ELSE old[k]]

defaultSettings ==
    [ratePerMinute   |-> D(16666),
     businessName    |-> "Tubewell Water Supply",
     businessContact |-> "0300-0000000",
     businessAddress |-> "Your Area, Your City"]

\* settingsData ? { ...defaultSettings, ...settingsData } : defaultSettings
settings == Merge(defaultSettings, settingsData)

\* customersRef: collection(firestore, 'users', user.uid, 'customers'), or null.
customersRef ==
    IF user # NoUser THEN <<"users", user, "customers">> ELSE Null

\* settingsRef: doc(firestore, 'users', user.uid, 'settings', 'default'), or null.
settingsRef ==
    IF user # NoUser THEN <<"users", user, "settings", "default">> ELSE Null

\* invoicesRef as memoized for the user usr and the selection sel.
invoicesRefOf(usr, sel) ==
    IF usr # NoUser /\ sel # Null
    THEN <<"users", usr, "customers", sel, "invoices">>
    ELSE Null

\* invoicesRef: the invoices subcollection of selectedCustomerId, or null.
invoicesRef == invoicesRefOf(user, selectedCustomerId)

\* doc(colRef, id): the path of a document of a collection.
doc(colRef, id) == Append(colRef, id)

\* The key of a document within customers (users/{uid}/customers/{c}) and
\* within invoices (users/{uid}/customers/{c}/invoices/{i}).
CustomerKey(path) == path[4]

InvoiceKey(path) == <<path[4], path[6]>>

\* The order a snapshot lists the documents of a collection in: by id.
InvoiceOrder == <<"i1", "i2">>

\* The rows of a snapshot of customers/{c}/invoices: each document with the
\* key it is stored under, from position i of the order on.
RECURSIVE Listed(_, _, _)
Listed(invs, c, i) ==
    IF i > Len(InvoiceOrder) THEN <<>>
    ELSE IF <<c, InvoiceOrder[i]>> \in DOMAIN invs
         THEN <<[key |-> <<c, InvoiceOrder[i]>>, inv |-> invs[<<c, InvoiceOrder[i]>>]]>>
                  \o Listed(invs, c, i + 1)
         ELSE Listed(invs, c, i + 1)

\* useCollection(ref): the list a snapshot of ref delivers out of the stored
\* invoices invs; with no ref the data is null and the list defaults to [].
useCollection(ref, invs) ==
    IF ref = Null THEN <<>> ELSE Listed(invs, ref[4], 1)

\* The keys and the set of the rows of a list.
Keys(rows) == {rows[i].key : i \in 1..Len(rows)}

Rows(rows) == {rows[i] : i \in 1..Len(rows)}

\* The row of the list with key p: the inv handed to its InvoiceRow.
Row(rows, p) == CHOOSE r \in Rows(rows) : r.key = p

\* The list useCollection holds after a handler that leaves the user usr, the
\* selection sel and the stored invoices invs. A write of this tab under the
\* subscribed collection is listed at once; after a change of invoicesRef
\* the hook keeps the list it holds until the first snapshot of the new
\* collection arrives; a sort in place stays until the next snapshot.
ListAfter(usr, sel, invs) ==
    LET ref == invoicesRefOf(usr, sel)
    IN  IF ref = Null THEN <<>>
        ELSE IF ref # invoicesRef THEN customerInvoices
        ELSE IF useCollection(ref, invs) # useCollection(ref, invoices)
             THEN useCollection(ref, invs)
        ELSE customerInvoices

\* (customers || []).find((c) => c.id === selectedCustomerId) || null
selectedCustomer ==
    IF selectedCustomerId \in DOMAIN customers THEN selectedCustomerId ELSE Null

\* The main content is rendered, and within it InvoicesView with its rows.
InvoicesViewShownIn(usr, vw, custs, sel) ==
    usr # NoUser /\ vw = "invoices" /\ sel \in DOMAIN custs

InvoicesViewShown == InvoicesViewShownIn(user, view, customers, selectedCustomerId)

\* A keyed list with one entry set, and with one entry removed.
WithKey(f, key, val) ==
    [x \in (DOMAIN f) \cup {key} |-> IF x = key THEN val ELSE f[x]]

WithoutKey(f, key) == [x \in (DOMAIN f) \ {key} |-> f[x]]

\* addDocumentNonBlocking(colRef, data): a new document under a fresh id.
addDocumentNonBlocking(col, path, data) == WithKey(col, path, data)

\* updateDocumentNonBlocking(docRef, data): the given fields of an existing
\* document are replaced; a missing document is not created.
updateDocumentNonBlocking(col, path, data) ==
    IF path \in DOMAIN col THEN [col EXCEPT ![path] = Merge(@, data)] ELSE col

\* deleteDocumentNonBlocking(docRef)
deleteDocumentNonBlocking(col, path) == WithoutKey(col, path)

\* setDocumentNonBlocking(docRef, data, { merge: true })
setDocumentNonBlocking(docData, data) == Merge(docData, data)

\* The edit forms that stay mounted: an InvoiceRow lives while InvoicesView
\* is shown and its invoice is a row of the list.
KeepMounted(forms, usr, vw, custs, sel, rows) ==
    [p \in {q \in DOMAIN forms :
                /\ InvoicesViewShownIn(usr, vw, custs, sel)
                /\ q \in Keys(rows)} |-> forms[p]]

NoOp == [kind |-> "none", wrote |-> FALSE, target |-> Null, input |-> <<>>]

Op(kind, wrote, target, input) ==
    [kind |-> kind, wrote |-> wrote, target |-> target, input |-> input]

-----------------------------------------------------------------------------
(* DashboardView: the statistics fetched over all customers *)

\* for (const customer of customers): the order the customer list is walked in.
CustomerOrder == <<"c1", "c2">>

\* The recent list: allInvoices.slice(0, 5)
RecentLimit == 5

\* The ids of custs, in the order of the list, from position i on.
RECURSIVE Walk(_, _)
Walk(custs, i) ==
    IF i > Len(CustomerOrder) THEN <<>>
    ELSE IF CustomerOrder[i] \in DOMAIN custs
         THEN <<CustomerOrder[i]>> \o Walk(custs, i + 1)
         ELSE Walk(custs, i + 1)

\* DashboardView is rendered: view === 'invoices' && !selectedCustomer
DashboardShownIn(usr, vw, custs, sel) ==
    usr # NoUser /\ vw = "invoices" /\ sel \notin DOMAIN custs

DashboardShown == DashboardShownIn(user, view, customers, selectedCustomerId)

ZeroStats ==
    [totalReceived |-> N(0), totalPending |-> N(0),
     totalCustomers |-> 0, totalInvoices |-> 0]

\* useState of DashboardView
InitialDashboard ==
    [stats |-> ZeroStats, recentInvoices |-> <<>>, isLoading |-> TRUE]

\* allInvoices.reduce((sum, inv) => sum + (inv[field] || 0), 0)
RECURSIVE SumOrZero(_, _)
SumOrZero(all, field) ==
    IF all = <<>> THEN N(0)
    ELSE jsAdd(SumOrZero(SubSeq(all, 1, Len(all) - 1), field),
               jsOrZero(all[Len(all)][field]))

\* allInvoices.sort((a, b) => time(b.createdAt) - time(a.createdAt)): a stable
\* sort, latest first; an invoice stays behind those read before it that are
\* as late.
RECURSIVE SortByCreatedAtDesc(_)
SortByCreatedAtDesc(all) ==
    IF all = <<>> THEN <<>>
    ELSE LET rest == SortByCreatedAtDesc(SubSeq(all, 1, Len(all) - 1))
             x    == all[Len(all)]
             k    == Cardinality({i \in 1..Len(rest) : rest[i].createdAt >= x.createdAt})
         IN  SubSeq(rest, 1, k) \o <<x>> \o SubSeq(rest, k + 1, Len(rest))

\* The state fetchData sets when it returns: setStats, setRecentInvoices,
\* setIsLoading(false).
FetchedDashboard(custs, all) ==
    LET sorted == SortByCreatedAtDesc(all)
    IN  [stats |-> [totalReceived  |-> SumOrZero(all, "amountReceived"),
                    totalPending   |-> SumOrZero(all, "amountPending"),
                    totalCustomers |-> Cardinality(DOMAIN custs),
                    totalInvoices  |-> Len(all)],
         recentInvoices |->
             SubSeq(sorted, 1, IF Len(sorted) < RecentLimit THEN Len(sorted)
                               ELSE RecentLimit),
         isLoading |-> FALSE]

\* collection(firestore, 'users', user.uid, 'customers', customer.id, 'invoices')
invoicesColRef(uid, customerId) ==
    <<"users", uid, "customers", customerId, "invoices">>

\* A call of fetchData that awaits getDocs for the first customer of todo:
\* the user and customer list it was called with, the invoices pushed so
\* far, and whether the DashboardView that called it is still mounted.
NewFetch(uid, custs) ==
    [uid |-> uid, customers |-> custs, todo |-> Walk(custs, 1), all |-> <<>>,
     live |-> TRUE]

\* The calls of an unmounted DashboardView go on; what they set is dropped.
Unmounted(fs) ==
    {[f EXCEPT !.live = FALSE, !.all = <<>>, !.customers = <<>>] : f \in fs}

\* The most calls of fetchData that are awaiting at one time.
MaxFetches == 2

Read(path, by) == [op |-> "read", path |-> path, by |-> by]

Write(path, by) == [op |-> "write", path |-> path, by |-> by]

\* The render that follows a handler. written: the paths the handler wrote.
\* DashboardView's effect calls fetchData when the view is mounted and when
\* customers or user change; with no customers fetchData returns at once.
\* useCollection(invoicesRef) hands the render its list.
Render(written) ==
    LET before   == DashboardShown
        after    == DashboardShownIn(user', view', customers', selectedCustomerId')
        called   == after /\ (~before \/ customers' # customers \/ user' # user)
        awaiting == called /\ DOMAIN customers' # {}
        kept     == IF before /\ after THEN fetches ELSE Unmounted(fetches)
        shown    == IF before THEN dashboard ELSE InitialDashboard
        f        == NewFetch(user', customers')
    IN  /\ awaiting => Cardinality(kept \cup {f}) <= MaxFetches
        /\ fetches' = IF awaiting THEN kept \cup {f} ELSE kept
        /\ dashboard' =
              IF ~after THEN InitialDashboard
              ELSE IF awaiting THEN [shown EXCEPT !.isLoading = TRUE]
              ELSE IF called THEN FetchedDashboard(customers', <<>>)
              ELSE dashboard
        /\ customerInvoices' = ListAfter(user', selectedCustomerId', invoices')
        /\ access' = access \cup {Write(w, user) : w \in written}
                        \cup (IF awaiting
                              THEN {Read(invoicesColRef(f.uid, f.todo[1]), user')}
                              ELSE {})

-----------------------------------------------------------------------------
(* Customers, navigation, settings *)

addCustomer_NoNameCheck(id, name, contact) ==
    /\ user # NoUser
    /\ id \notin usedIds
    /\ IF customersRef = Null
       THEN UNCHANGED <<customers, pendingAdds, usedIds>>
       ELSE /\ customers' = addDocumentNonBlocking(
                                customers, CustomerKey(doc(customersRef, id)),
                                [name |-> name, contact |-> contact])
            /\ pendingAdds' = pendingAdds \cup {id}
            /\ usedIds' = usedIds \cup {id}
    /\ lastOp' = Op("addCustomer", customersRef # Null, id, [name |-> name])
    /\ UNCHANGED <<user, selectedCustomerId, view, invoices,
                   settingsData, editForms, now, calc, customerToDelete, register, accounts, otherEditForms>>
    /\ Render(IF customersRef # Null THEN {doc(customersRef, id)} ELSE {})

\* CustomerForm.onSubmit -> addCustomer(name.trim(), contact.trim())
\* name and contact are given trimmed; "" is the empty name.
addCustomer(id, name, contact) ==
    /\ user # NoUser
    /\ id \notin usedIds
    /\ IF name = "" \/ customersRef = Null
       THEN UNCHANGED <<customers, pendingAdds, usedIds>>
       ELSE /\ customers' = addDocumentNonBlocking(
                                customers, CustomerKey(doc(customersRef, id)),
                                [name |-> name, contact |-> contact])
            /\ pendingAdds' = pendingAdds \cup {id}
            /\ usedIds' = usedIds \cup {id}
    /\ lastOp' = Op("addCustomer", name # "" /\ customersRef # Null, id,
                    [name |-> name])
    /\ UNCHANGED <<user, selectedCustomerId, view, invoices,
                   settingsData, editForms, now, calc, customerToDelete, register, accounts, otherEditForms>>
    /\ Render(IF name # "" /\ customersRef # Null THEN {doc(customersRef, id)} ELSE {})

\* .then((docRef) => { if (docRef) setSelectedCustomerId(docRef.id); })
addCustomerAck(id) ==
    /\ id \in pendingAdds
    /\ pendingAdds' = pendingAdds \ {id}
    /\ selectedCustomerId' = id
    /\ editForms' = KeepMounted(editForms, user, view, customers, id,
                              ListAfter(user, id, invoices))
    /\ lastOp' = Op("addCustomerAck", FALSE, id, <<>>)
    /\ UNCHANGED <<user, customers, view, invoices, usedIds, settingsData, now, calc,
                   customerToDelete, register, accounts, otherEditForms>>
    /\ Render({})

\* The customer button: setSelectedCustomerId(c.id); setView('invoices')
selectCustomer(c) ==
    /\ user # NoUser
    /\ c \in DOMAIN customers
    /\ selectedCustomerId' = c
    /\ view' = "invoices"
    /\ editForms' = KeepMounted(editForms, user, "invoices", customers, c,
                              ListAfter(user, c, invoices))
    /\ lastOp' = Op("selectCustomer", FALSE, c, <<>>)
    /\ UNCHANGED <<user, customers, pendingAdds, invoices, usedIds, settingsData,
                   now, calc, customerToDelete, register, accounts, otherEditForms>>
    /\ Render({})

\* The header buttons: setView('settings'), setView('about')
setView(v) ==
    /\ user # NoUser
    /\ view # v
    /\ view' = v
    /\ editForms' = KeepMounted(editForms, user, v, customers, selectedCustomerId,
                              ListAfter(user, selectedCustomerId, invoices))
    /\ lastOp' = Op("setView", FALSE, Null, <<>>)
    /\ UNCHANGED <<user, customers, pendingAdds, selectedCustomerId, invoices,
                   usedIds, settingsData, now, calc, customerToDelete, register, accounts, otherEditForms>>
    /\ Render({})

updateSettings_Replace(newSettings) ==
    IF settingsRef = Null THEN settingsData ELSE newSettings

\* updateSettings(newSettings): a merge into the stored settings document.
updateSettings(newSettings) ==
    IF settingsRef = Null THEN settingsData
    ELSE setDocumentNonBlocking(settingsData, newSettings)

\* SettingsView: the Save Changes button, onChange(local). local is the
\* effective settings with the fields the user changed.
SettingsViewSave(local) ==
    /\ user # NoUser
    /\ view = "settings"
    /\ settingsData' = updateSettings(local)
    /\ lastOp' = Op("saveSettings", settingsRef # Null, Null, local)
    /\ UNCHANGED <<user, customers, pendingAdds, selectedCustomerId, view,
                   invoices, usedIds, editForms, now, calc, customerToDelete,
                   register, accounts, otherEditForms>>
    /\ Render(IF settingsRef = Null THEN {} ELSE {settingsRef})

\* A file whose text is a JSON object, and one whose text is not JSON.
ObjectFile(obj) == [json |-> "object", value |-> obj]

InvalidFile == [json |-> "invalid", value |-> <<>>]

JSONparse_Lenient(file) ==
    [threw |-> FALSE, value |-> file.value]

\* JSON.parse(reader.result): the parsed object, or a SyntaxError thrown.
JSONparse(file) ==
    [threw |-> file.json = "invalid", value |-> file.value]

\* importSettings(file): reader.onload parses the text, calls updateSettings
\* and alerts "Settings imported."; the catch alerts "Invalid settings file."
importSettings(file) ==
    /\ user # NoUser
    /\ view = "settings"
    /\ LET parsed == JSONparse(file)
           wrote  == ~parsed.threw /\ settingsRef # Null
       IN  /\ settingsData' = IF parsed.threw THEN settingsData
                              ELSE updateSettings(parsed.value)
           /\ lastOp' = Merge(Op("importSettings", wrote, Null, file),
                              [alert |-> IF parsed.threw THEN "Invalid settings file."
                                         ELSE "Settings imported."])
           /\ UNCHANGED <<user, customers, pendingAdds, selectedCustomerId, view,
                          invoices, usedIds, editForms, now, calc, customerToDelete,
                          register, accounts, otherEditForms>>
           /\ Render(IF wrote THEN {settingsRef} ELSE {})

\* handleViewAllCustomers: setSelectedCustomerId(null); setView('invoices')
handleViewAllCustomers ==
    /\ user # NoUser
    /\ selectedCustomerId' = Null
    /\ view' = "invoices"
    /\ editForms' = KeepMounted(editForms, user, "invoices", customers, Null, <<>>)
    /\ lastOp' = Op("viewAll", FALSE, Null, <<>>)
    /\ UNCHANGED <<user, customers, pendingAdds, invoices, usedIds, settingsData,
                   now, calc, customerToDelete, register, accounts, otherEditForms>>
    /\ Render({})

\* name.trim(), contact.trim() of the texts typed into CustomerForm.
trim(text) ==
    CASE text = " "     -> ""
      [] text = " Ali " -> "Ali"
      [] OTHER          -> text

\* The pencil button of a customer: two prompts, then updateCustomer(c.id,
\* { name, contact }). prompt returns null when cancelled; !name stops an
\* empty and a cancelled name.
editCustomer(c, name, contact) ==
    /\ user # NoUser
    /\ c \in DOMAIN customers
    /\ LET wrote == name # Null /\ name # "" /\ customersRef # Null
       IN  /\ customers' =
                 IF wrote
                 THEN updateDocumentNonBlocking(
                          customers, CustomerKey(doc(customersRef, c)),
                          [name |-> name, contact |-> contact])
                 ELSE customers
           /\ lastOp' = Op("editCustomer", wrote, c, [name |-> name])
           /\ UNCHANGED <<user, pendingAdds, selectedCustomerId, view, invoices,
                          usedIds, settingsData, editForms, now, calc,
                          customerToDelete, register, accounts, otherEditForms>>
           /\ Render(IF wrote THEN {doc(customersRef, c)} ELSE {})

\* The trash button of a customer: setCustomerToDelete(c)
askDeleteCustomer(c) ==
    /\ user # NoUser
    /\ c \in DOMAIN customers
    /\ customerToDelete' = [id |-> c, name |-> customers[c].name]
    /\ lastOp' = Op("askDeleteCustomer", FALSE, c, <<>>)
    /\ UNCHANGED <<user, customers, pendingAdds, selectedCustomerId, view, invoices,
                   usedIds, settingsData, editForms, now, calc, register, accounts, otherEditForms>>
    /\ Render({})

\* CustomerDeleteDialog: Cancel, onClose
closeDeleteDialog ==
    /\ user # NoUser
    /\ customerToDelete # NullCustomer
    /\ customerToDelete' = NullCustomer
    /\ lastOp' = Op("closeDeleteDialog", FALSE, Null, <<>>)
    /\ UNCHANGED <<user, customers, pendingAdds, selectedCustomerId, view, invoices,
                   usedIds, settingsData, editForms, now, calc, register, accounts, otherEditForms>>
    /\ Render({})

isMatch_Always(confirmationText, customer) == TRUE

\* const isMatch = confirmationText === customer.name
isMatch(confirmationText, customer) == confirmationText = customer.name

\* CustomerDeleteDialog: Delete Customer, enabled when the typed text is the
\* customer's name; onConfirm -> deleteCustomer(customerToDelete.id).
\* deleteCustomer deletes the customer document only.
deleteCustomer(confirmationText) ==
    /\ user # NoUser
    /\ customerToDelete # NullCustomer
    /\ LET id      == customerToDelete.id
           wrote   == isMatch(confirmationText, customerToDelete) /\ customersRef # Null
       IN  /\ customers' =
                 IF wrote
                 THEN deleteDocumentNonBlocking(
                          customers, CustomerKey(doc(customersRef, id)))
                 ELSE customers
           /\ selectedCustomerId' =
                 IF wrote /\ selectedCustomerId = id THEN Null ELSE selectedCustomerId
           /\ customerToDelete' = IF wrote THEN NullCustomer ELSE customerToDelete
           /\ editForms' = KeepMounted(editForms, user, view, customers',
                                       selectedCustomerId',
                                       ListAfter(user, selectedCustomerId', invoices))
           /\ lastOp' = Op("deleteCustomer", wrote, id,
                           [confirmationText |-> confirmationText])
           /\ UNCHANGED <<user, pendingAdds, view, invoices, usedIds, settingsData,
                          now, calc, register, accounts, otherEditForms>>
           /\ Render(IF wrote THEN {doc(customersRef, id)} ELSE {})

-----------------------------------------------------------------------------
(* InvoiceForm: create *)

InvoiceFormPayload_NoOrZero(customerId, date, startTime, endTime, ratePerMinute, amountReceived) ==
    LET mins      == minutesBetween(startTime, endTime)
        totalCost == roundAbout(jsMul(mins, ratePerMinute))
        received  == roundAbout(Number(amountReceived))
    IN  [customerId      |-> customerId,
         date            |-> date,
         startTime       |-> startTime,
         endTime         |-> endTime,
         ratePerMinute   |-> ratePerMinute,
         durationMinutes |-> mins,
         totalCost       |-> totalCost,
         amountReceived  |-> received,
         amountPending   |-> jsSub(totalCost, received)]

\* The record InvoiceForm's onSubmit hands to addInvoice.
\* mins = minutesBetween(startTime, endTime), total = mins * ratePerMinute
InvoiceFormPayload(customerId, date, startTime, endTime, ratePerMinute, amountReceived) ==
    LET mins      == minutesBetween(startTime, endTime)
        total     == jsMul(mins, ratePerMinute)
        totalCost == roundAbout(total)
        received  == roundAbout(jsOrZero(Number(amountReceived)))
    IN  [customerId      |-> customerId,
         date            |-> date,
         startTime       |-> startTime,
         endTime         |-> endTime,
         ratePerMinute   |-> ratePerMinute,
         durationMinutes |-> mins,
         totalCost       |-> totalCost,
         amountReceived  |-> received,
         amountPending   |-> jsSub(totalCost, received)]

\* addInvoice(payload): the document written to invoicesRef.
addInvoiceDoc(payload) ==
    Merge(payload, [createdAt |-> now, updatedAt |-> now])

\* InvoiceForm.onSubmit -> onSubmit(payload) -> addInvoice(payload).
\* The form's fields hold what the user left in them; ratePerMinute is a
\* typed number or the rate the settings gave the form. The form's own
\* state (reset of amountReceived to 0) is not kept between submits: every
\* submit draws its fields anew.
InvoiceFormSubmit(id, date, startTime, endTime, ratePerMinute, amountReceived) ==
    /\ InvoicesViewShown
    /\ id \notin usedIds
    /\ LET customerId == selectedCustomer
           payload    == InvoiceFormPayload(customerId, date, startTime, endTime,
                                            ratePerMinute, amountReceived)
           input      == [date |-> date, startTime |-> startTime, endTime |-> endTime,
                          ratePerMinute |-> ratePerMinute,
                          amountReceived |-> amountReceived]
       IN  IF customerId = Null \/ invoicesRef = Null
           THEN /\ UNCHANGED <<invoices, usedIds>>
                /\ lastOp' = Op("create", FALSE, Null, input)
           ELSE /\ invoices' = addDocumentNonBlocking(
                                   invoices, InvoiceKey(doc(invoicesRef, id)),
                                   addInvoiceDoc(payload))
                /\ usedIds' = usedIds \cup {id}
                /\ lastOp' = Op("create", TRUE, InvoiceKey(doc(invoicesRef, id)), input)
    /\ editForms' = KeepMounted(editForms, user, view, customers, selectedCustomerId,
                                ListAfter(user, selectedCustomerId, invoices'))
    /\ UNCHANGED <<user, customers, pendingAdds, selectedCustomerId, view,
                   settingsData, now, calc, customerToDelete, register, accounts,
                   otherEditForms>>
    /\ Render(IF selectedCustomer = Null \/ invoicesRef = Null THEN {}
              ELSE {doc(invoicesRef, id)})

-----------------------------------------------------------------------------
(* InvoiceRow and EditInvoiceForm: edit-save, cancel, delete *)

RateOf_FromSettings(inv) == settings.ratePerMinute

\* inv.ratePerMinute ?? settings.ratePerMinute
RateOf(inv) ==
    IF "ratePerMinute" \in DOMAIN inv THEN inv.ratePerMinute ELSE settings.ratePerMinute

\* The pencil button: setIsEditing(true); EditInvoiceForm takes its formData
\* from the invoice. The rate input is read-only, so the form keeps this rate;
\* the other fields hold what the user leaves in them at the time of the save.
startEdit(p) ==
    /\ InvoicesViewShown
    /\ p \in Keys(customerInvoices)
    /\ p \notin DOMAIN editForms
    /\ editForms' = WithKey(editForms, p,
                            [ratePerMinute |-> RateOf(Row(customerInvoices, p).inv)])
    /\ lastOp' = Op("startEdit", FALSE, p, <<>>)
    /\ UNCHANGED <<user, customers, pendingAdds, selectedCustomerId, view, invoices,
                   usedIds, settingsData, now, calc, customerToDelete, register, accounts, otherEditForms>>
    /\ Render({})

\* onCancel: setIsEditing(false)
cancelEdit(p) ==
    /\ p \in DOMAIN editForms
    /\ editForms' = WithoutKey(editForms, p)
    /\ lastOp' = Op("cancelEdit", FALSE, p, <<>>)
    /\ UNCHANGED <<user, customers, pendingAdds, selectedCustomerId, view, invoices,
                   usedIds, settingsData, now, calc, customerToDelete, register, accounts, otherEditForms>>
    /\ Render({})

\* handleSave's two checks: "Invalid time format." and "Invalid rate per minute."
EditInvoiceValid(formData) ==
    /\ ~isNaN(minutesBetween(formData.startTime, formData.endTime))
    /\ ~(isNaN(formData.ratePerMinute) \/ jsLeq(formData.ratePerMinute, N(0)))

EditInvoiceUpdates_Unrounded(formData) ==
    LET newMins     == minutesBetween(formData.startTime, formData.endTime)
        newTotal    == jsMul(newMins, formData.ratePerMinute)
        newReceived == roundAbout(jsOrZero(formData.amountReceived))
    IN  [date            |-> formData.date,
         startTime       |-> formData.startTime,
         endTime         |-> formData.endTime,
         ratePerMinute   |-> formData.ratePerMinute,
         amountReceived  |-> newReceived,
         durationMinutes |-> newMins,
         totalCost       |-> newTotal,
         amountPending   |-> jsSub(newTotal, newReceived)]

EditInvoiceUpdates_ClampPending(formData) ==
    LET newMins     == minutesBetween(formData.startTime, formData.endTime)
        newTotal    == roundAbout(jsMul(newMins, formData.ratePerMinute))
        newReceived == roundAbout(jsOrZero(formData.amountReceived))
    IN  [date            |-> formData.date,
         startTime       |-> formData.startTime,
         endTime         |-> formData.endTime,
         ratePerMinute   |-> formData.ratePerMinute,
         amountReceived  |-> newReceived,
         durationMinutes |-> newMins,
         totalCost       |-> newTotal,
         amountPending   |-> jsMax0(jsSub(newTotal, newReceived))]

EditInvoiceUpdates_NoDuration(formData) ==
    LET newMins     == minutesBetween(formData.startTime, formData.endTime)
        newTotal    == roundAbout(jsMul(newMins, formData.ratePerMinute))
        newReceived == roundAbout(jsOrZero(formData.amountReceived))
    IN  [date            |-> formData.date,
         startTime       |-> formData.startTime,
         endTime         |-> formData.endTime,
         ratePerMinute   |-> formData.ratePerMinute,
         amountReceived  |-> newReceived,
         totalCost       |-> newTotal,
         amountPending   |-> jsSub(newTotal, newReceived)]

EditInvoiceUpdates_NoTimes(formData) ==
    LET newMins     == minutesBetween(formData.startTime, formData.endTime)
        newTotal    == roundAbout(jsMul(newMins, formData.ratePerMinute))
        newReceived == roundAbout(jsOrZero(formData.amountReceived))
    IN  [ratePerMinute   |-> formData.ratePerMinute,
         amountReceived  |-> newReceived,
         durationMinutes |-> newMins,
         totalCost       |-> newTotal,
         amountPending   |-> jsSub(newTotal, newReceived)]

\* The updates handleSave hands to onSave.
EditInvoiceUpdates(formData) ==
    LET newMins     == minutesBetween(formData.startTime, formData.endTime)
        newTotal    == roundAbout(jsMul(newMins, formData.ratePerMinute))
        newReceived == roundAbout(jsOrZero(formData.amountReceived))
        newPending  == jsSub(newTotal, newReceived)
    IN  [date            |-> formData.date,
         startTime       |-> formData.startTime,
         endTime         |-> formData.endTime,
         ratePerMinute   |-> formData.ratePerMinute,
         amountReceived  |-> newReceived,
         durationMinutes |-> newMins,
         totalCost       |-> newTotal,
         amountPending   |-> newPending]

updateInvoiceDoc_Restamped(updates) ==
    Merge(updates, [createdAt |-> now, updatedAt |-> now])

\* updateInvoice(id, updates): the fields written to the invoice document.
updateInvoiceDoc(updates) == Merge(updates, [updatedAt |-> now])

updateInvoice_SetMerge(invs, ref, id, updates) ==
    IF ref = Null THEN invs
    ELSE WithKey(invs, InvoiceKey(doc(ref, id)),
                 IF InvoiceKey(doc(ref, id)) \in DOMAIN invs
                 THEN setDocumentNonBlocking(invs[InvoiceKey(doc(ref, id))],
                                             updateInvoiceDoc(updates))
                 ELSE updateInvoiceDoc(updates))

\* updateInvoice(id, updates) of a tab whose invoicesRef is ref: the stored
\* invoices after updateDocumentNonBlocking(doc(invoicesRef, id), ...).
updateInvoice(invs, ref, id, updates) ==
    IF ref = Null THEN invs
    ELSE updateDocumentNonBlocking(invs, InvoiceKey(doc(ref, id)),
                                   updateInvoiceDoc(updates))

\* The document an invoice write with id is addressed to, or Null.
InvoiceDocRef(ref, id) == IF ref = Null THEN Null ELSE doc(ref, id)

\* EditInvoiceForm.handleSave -> onSave(updates) -> updateInvoice(inv.id, updates);
\* setIsEditing(false). amountReceived is the text of the number input, which
\* handleChange stores as Number(value).
handleSave(p, date, startTime, endTime, amountReceived) ==
    /\ p \in DOMAIN editForms
    /\ LET formData == [date           |-> date,
                        startTime      |-> startTime,
                        endTime        |-> endTime,
                        ratePerMinute  |-> editForms[p].ratePerMinute,
                        amountReceived |-> Number(amountReceived)]
           input    == [date |-> date, startTime |-> startTime, endTime |-> endTime,
                        ratePerMinute |-> editForms[p].ratePerMinute,
                        amountReceived |-> amountReceived]
       IN  /\ IF ~EditInvoiceValid(formData)
              THEN /\ UNCHANGED <<invoices, editForms>>
                   /\ lastOp' = Op("editSave", FALSE, p, input)
              ELSE /\ invoices' = updateInvoice(invoices, invoicesRef, p[2],
                                                 EditInvoiceUpdates(formData))
                   /\ editForms' =
                         KeepMounted(WithoutKey(editForms, p), user, view, customers,
                                     selectedCustomerId,
                                     ListAfter(user, selectedCustomerId, invoices'))
                   /\ lastOp' = Merge(Op("editSave", invoicesRef # Null, p, input),
                                      [path |-> InvoiceDocRef(invoicesRef, p[2])])
           /\ UNCHANGED <<user, customers, pendingAdds, selectedCustomerId, view,
                          usedIds, settingsData, now, calc, customerToDelete,
                          register, accounts, otherEditForms>>
           /\ Render(IF EditInvoiceValid(formData) /\ invoicesRef # Null
                     THEN {doc(invoicesRef, p[2])} ELSE {})

\* handleDelete -> deleteInvoice(inv.id); the row is gone with its document.
deleteInvoice(p) ==
    /\ InvoicesViewShown
    /\ p \in Keys(customerInvoices)
    /\ p \notin DOMAIN editForms
    /\ invoices' = IF invoicesRef = Null THEN invoices
                   ELSE deleteDocumentNonBlocking(
                            invoices, InvoiceKey(doc(invoicesRef, p[2])))
    /\ editForms' = KeepMounted(editForms, user, view, customers, selectedCustomerId,
                                ListAfter(user, selectedCustomerId, invoices'))
    /\ lastOp' = Merge(Op("delete", invoicesRef # Null, p, <<>>),
                       [path |-> InvoiceDocRef(invoicesRef, p[2])])
    /\ UNCHANGED <<user, customers, pendingAdds, selectedCustomerId, view, usedIds,
                   settingsData, now, calc, customerToDelete, register, accounts, otherEditForms>>
    /\ Render(IF invoicesRef = Null THEN {} ELSE {doc(invoicesRef, p[2])})

-----------------------------------------------------------------------------
(* The invoice list: snapshots and the PDF export *)

\* A snapshot of invoicesRef arrives whose documents differ from the rows
\* held: the list is replaced, and the rows no longer listed are unmounted.
snapshot ==
    /\ user # NoUser
    /\ Rows(customerInvoices) # Rows(useCollection(invoicesRef, invoices))
    /\ customerInvoices' = useCollection(invoicesRef, invoices)
    /\ editForms' = KeepMounted(editForms, user, view, customers, selectedCustomerId,
                                customerInvoices')
    /\ lastOp' = Op("snapshot", FALSE, Null, <<>>)
    /\ UNCHANGED <<user, customers, pendingAdds, selectedCustomerId, view, invoices,
                   usedIds, settingsData, now, calc, customerToDelete, dashboard,
                   fetches, register, access, accounts, otherEditForms>>

\* new Date(date).getTime(), in days; NaN for a date that does not parse.
getTime(date) ==
    CASE date = "2024-01-05" -> N(5)
      [] date = "2024-01-06" -> N(6)
      [] OTHER               -> NaN

\* (a, b) => new Date(b.date).getTime() - new Date(a.date).getTime() is
\* positive: a is to come after b. A NaN result counts as 0.
ComesAfter(a, b) ==
    LET diff == jsSub(getTime(b.inv.date), getTime(a.inv.date))
    IN  ~isNaN(diff) /\ diff.v > 0

\* rows.sort(by date, latest first): a stable sort; a row stays behind the
\* rows before it that are not to come after it.
RECURSIVE SortByDateDesc(_)
SortByDateDesc(rows) ==
    IF rows = <<>> THEN <<>>
    ELSE LET rest == SortByDateDesc(SubSeq(rows, 1, Len(rows) - 1))
             x    == rows[Len(rows)]
             k    == Cardinality({i \in 1..Len(rest) : ~ComesAfter(rest[i], x)})
         IN  SubSeq(rest, 1, k) \o <<x>> \o SubSeq(rest, k + 1, Len(rest))

\* One row of the PDF table: date, duration, rate, total, received, pending.
PdfRow(r) ==
    [date     |-> r.inv.date,
     duration |-> r.inv.durationMinutes,
     rate     |-> roundAbout(RateOf(r.inv)),
     total    |-> roundAbout(r.inv.totalCost),
     received |-> roundAbout(r.inv.amountReceived),
     pending  |-> roundAbout(r.inv.amountPending)]

\* The Download PDF button: exportCustomerHistoryPDF(selectedCustomer).
\* customerInvoices.sort(...) sorts the array of the list in place; map
\* builds the table rows; doc.save writes the file. No state is set.
exportCustomerHistoryPDF ==
    /\ InvoicesViewShown
    /\ LET sorted == SortByDateDesc(customerInvoices)
       IN  /\ customerInvoices' = sorted
           /\ lastOp' = Op("exportPDF", FALSE, selectedCustomerId,
                           [rows |-> [i \in 1..Len(sorted) |-> PdfRow(sorted[i])]])
    /\ UNCHANGED <<user, customers, pendingAdds, selectedCustomerId, view, invoices,
                   usedIds, settingsData, editForms, now, calc, customerToDelete,
                   dashboard, fetches, register, access, accounts, otherEditForms>>

-----------------------------------------------------------------------------
(* Another tab of the same user: its edit forms, saves and deletes *)

\* The pencil button in the other tab, on a row of its list. inv: the
\* invoice the form was opened with.
otherStartEdit(p) ==
    /\ user # NoUser
    /\ p \in DOMAIN invoices
    /\ p \notin DOMAIN otherEditForms
    /\ otherEditForms' = WithKey(otherEditForms, p,
                                 [ratePerMinute |-> RateOf(invoices[p]),
                                  inv |-> invoices[p]])
    /\ lastOp' = Op("otherStartEdit", FALSE, p, <<>>)
    /\ UNCHANGED <<user, customers, pendingAdds, selectedCustomerId, view, invoices,
                   usedIds, settingsData, editForms, now, calc, customerToDelete,
                   dashboard, fetches, register, access, accounts, customerInvoices>>

\* handleSave in the other tab, whose invoicesRef is that of the row's
\* customer: the store applies its update. This tab learns of it by a
\* snapshot.
otherHandleSave(p, date, startTime, endTime, amountReceived) ==
    /\ user # NoUser
    /\ p \in DOMAIN otherEditForms
    /\ LET formData == [date           |-> date,
                        startTime      |-> startTime,
                        endTime        |-> endTime,
                        ratePerMinute  |-> otherEditForms[p].ratePerMinute,
                        amountReceived |-> Number(amountReceived)]
           input    == [date |-> date, startTime |-> startTime, endTime |-> endTime,
                        ratePerMinute |-> otherEditForms[p].ratePerMinute,
                        amountReceived |-> amountReceived]
           ref      == invoicesRefOf(user, p[1])
       IN  IF ~EditInvoiceValid(formData)
           THEN /\ UNCHANGED <<invoices, otherEditForms>>
                /\ lastOp' = Op("otherSave", FALSE, p, input)
           ELSE /\ invoices' = updateInvoice(invoices, ref, p[2],
                                             EditInvoiceUpdates(formData))
                /\ otherEditForms' = WithoutKey(otherEditForms, p)
                /\ lastOp' = Merge(Op("otherSave", TRUE, p, input),
                                   [path   |-> InvoiceDocRef(ref, p[2]),
                                    opened |-> otherEditForms[p].inv,
                                    before |-> IF p \in DOMAIN invoices
                                               THEN invoices[p] ELSE <<>>])
    /\ UNCHANGED <<user, customers, pendingAdds, selectedCustomerId, view,
                   usedIds, settingsData, editForms, now, calc, customerToDelete,
                   dashboard, fetches, register, access, accounts, customerInvoices>>

\* handleDelete in the other tab, on a row that is not being edited there.
otherDeleteInvoice(p) ==
    /\ user # NoUser
    /\ p \in DOMAIN invoices
    /\ p \notin DOMAIN otherEditForms
    /\ invoices' = deleteDocumentNonBlocking(
                       invoices, InvoiceKey(doc(invoicesRefOf(user, p[1]), p[2])))
    /\ lastOp' = Merge(Op("otherDelete", TRUE, p, <<>>),
                       [path |-> InvoiceDocRef(invoicesRefOf(user, p[1]), p[2])])
    /\ UNCHANGED <<user, customers, pendingAdds, selectedCustomerId, view,
                   usedIds, settingsData, editForms, now, calc, customerToDelete,
                   dashboard, fetches, register, access, accounts, customerInvoices,
                   otherEditForms>>

-----------------------------------------------------------------------------
(* DashboardView.fetchData: the return of an awaited getDocs *)

\* querySnapshot.forEach: the invoice documents of one customer, in the
\* order of their ids.
RECURSIVE getDocs(_, _, _)

getDocs(invs, customerId, i) ==
    IF i > Len(InvoiceOrder) THEN <<>>
    ELSE IF <<customerId, InvoiceOrder[i]>> \in DOMAIN invs
         THEN <<invs[<<customerId, InvoiceOrder[i]>>]>> \o getDocs(invs, customerId, i + 1)
         ELSE getDocs(invs, customerId, i + 1)

\* The invoices stored under users/{uid}.
InvoicesOf(uid) == IF uid = user THEN invoices ELSE accounts[uid].invoices

\* getDocs for the first customer of f.todo returns: its documents are pushed
\* with the customer's name, then fetchData asks for the next customer's
\* invoices or, after the last one, sets the statistics and the recent list.
fetchReturn(f) ==
    /\ f \in fetches
    /\ LET customerId == f.todo[1]
           docs == getDocs(InvoicesOf(f.uid), customerId, 1)
           all  == IF f.live
                   THEN f.all \o [i \in 1..Len(docs) |->
                                     Merge(docs[i], [customerName |->
                                                        f.customers[customerId].name])]
                   ELSE <<>>
           rest == Tail(f.todo)
       IN  IF rest # <<>>
           THEN /\ fetches' = (fetches \ {f}) \cup {[f EXCEPT !.todo = rest, !.all = all]}
                /\ access' = access \cup {Read(invoicesColRef(f.uid, rest[1]), user)}
                /\ UNCHANGED dashboard
           ELSE /\ fetches' = fetches \ {f}
                /\ dashboard' = IF f.live THEN FetchedDashboard(f.customers, all)
                                ELSE dashboard
                /\ UNCHANGED access
    /\ lastOp' = Op("fetchReturn", FALSE, Null,
                    [completed |-> Len(f.todo) = 1 /\ f.live])
    /\ UNCHANGED <<user, customers, pendingAdds, selectedCustomerId, view, invoices,
                   usedIds, settingsData, editForms, now, calc, customerToDelete,
                   register, accounts, customerInvoices, otherEditForms>>

-----------------------------------------------------------------------------
(* Sign-up, sign-in and sign-out *)

\* password.length < 6
MinPasswordLength == 6

\* useState of RegisterPage, and no sign-up request sent.
InitialRegister ==
    [password |-> "", confirmPassword |-> "", error |-> "", requests |-> {}]

\* The password inputs: setPassword, setConfirmPassword. The form is rendered
\* while no user is signed in.
setPassword(text) ==
    /\ user = NoUser
    /\ register.password # text
    /\ register' = [register EXCEPT !.password = text]
    /\ UNCHANGED <<user, customers, pendingAdds, selectedCustomerId, view, invoices,
                   usedIds, settingsData, editForms, now, lastOp, calc,
                   customerToDelete, dashboard, fetches, access, accounts, customerInvoices, otherEditForms>>

setConfirmPassword(text) ==
    /\ user = NoUser
    /\ register.confirmPassword # text
    /\ register' = [register EXCEPT !.confirmPassword = text]
    /\ UNCHANGED <<user, customers, pendingAdds, selectedCustomerId, view, invoices,
                   usedIds, settingsData, editForms, now, lastOp, calc,
                   customerToDelete, dashboard, fetches, access, accounts, customerInvoices, otherEditForms>>

handleSignUp_NoLengthCheck(auth) ==
    /\ user = NoUser
    /\ LET sent == register.password = register.confirmPassword /\ auth
       IN  /\ register' =
                 [register EXCEPT
                    !.error = IF register.password # register.confirmPassword
                              THEN "Passwords don't match."
                              ELSE IF ~auth
                              THEN "Authentication service is not available."
                              ELSE "",
                    !.requests = IF sent THEN @ \cup {register.password} ELSE @]
           /\ lastOp' = Op("signUp", sent, Null,
                           [password |-> register.password,
                            confirmPassword |-> register.confirmPassword])
    /\ UNCHANGED <<user, customers, pendingAdds, selectedCustomerId, view, invoices,
                   usedIds, settingsData, editForms, now, calc,
                   customerToDelete, dashboard, fetches, access, accounts, customerInvoices, otherEditForms>>

\* handleSignUp: setError(''), the three checks, initiateEmailSignUp(auth,
\* email, password). auth: the authentication service is available.
handleSignUp(auth) ==
    /\ user = NoUser
    /\ LET sent == /\ register.password = register.confirmPassword
                   /\ Len(register.password) >= MinPasswordLength
                   /\ auth
       IN  /\ register' =
                 [register EXCEPT
                    !.error = IF register.password # register.confirmPassword
                              THEN "Passwords don't match."
                              ELSE IF Len(register.password) < MinPasswordLength
                              THEN "Password must be at least 6 characters long."
                              ELSE IF ~auth
                              THEN "Authentication service is not available."
                              ELSE "",
                    !.requests = IF sent THEN @ \cup {register.password} ELSE @]
           /\ lastOp' = Op("signUp", sent, Null,
                           [password |-> register.password,
                            confirmPassword |-> register.confirmPassword])
    /\ UNCHANGED <<user, customers, pendingAdds, selectedCustomerId, view, invoices,
                   usedIds, settingsData, editForms, now, calc,
                   customerToDelete, dashboard, fetches, access, accounts, customerInvoices, otherEditForms>>

\* The identity provider reports the user uid as signed in; the pages
\* redirect to '/', where App is mounted with the data under users/{uid}.
signIn(uid) ==
    /\ user = NoUser
    /\ user' = uid
    /\ customers' = accounts[uid].customers
    /\ invoices' = accounts[uid].invoices
    /\ settingsData' = accounts[uid].settingsData
    /\ accounts' = [accounts EXCEPT ![uid] = EmptyAccount]
    /\ selectedCustomerId' = Null
    /\ view' = "invoices"
    /\ customerToDelete' = NullCustomer
    /\ pendingAdds' = {}
    /\ editForms' = <<>>
    /\ register' = [InitialRegister EXCEPT !.requests = register.requests]
    /\ lastOp' = Op("signIn", FALSE, Null, <<>>)
    /\ UNCHANGED <<usedIds, now, calc, otherEditForms>>
    /\ Render({})

\* handleSignOut: auth.signOut(). user becomes null, App shows "Loading..."
\* and redirects to /login.
handleSignOut ==
    /\ user # NoUser
    /\ user' = NoUser
    /\ accounts' = [accounts EXCEPT ![user] =
                       [customers |-> customers, invoices |-> invoices,
                        settingsData |-> settingsData]]
    /\ customers' = <<>>
    /\ invoices' = <<>>
    /\ settingsData' = <<>>
    /\ selectedCustomerId' = Null
    /\ view' = "invoices"
    /\ customerToDelete' = NullCustomer
    /\ pendingAdds' = {}
    /\ editForms' = <<>>
    /\ lastOp' = Op("signOut", FALSE, Null, <<>>)
    /\ UNCHANGED <<usedIds, now, calc, register, otherEditForms>>
    /\ Render({})

\* The wall clock advances.
MaxClock == 1

Tick ==
    /\ now < MaxClock
    /\ now' = now + 1
    /\ UNCHANGED <<user, customers, pendingAdds, selectedCustomerId, view, invoices,
                   usedIds, settingsData, editForms, lastOp, calc, customerToDelete,
                   dashboard, fetches, register, access, accounts, customerInvoices, otherEditForms>>

-----------------------------------------------------------------------------
(* Calls of the pure helpers *)

\* parseTimeToMinutes(calc.start)
callParseTimeToMinutes ==
    /\ calc.fn = "idle"
    /\ calc' = [calc EXCEPT !.fn = "parseTimeToMinutes",
                            !.result = parseTimeToMinutes(calc.start)]
    /\ UNCHANGED appVars

\* minutesBetween(calc.start, calc.end)
callMinutesBetween ==
    /\ calc.fn = "idle"
    /\ calc' = [calc EXCEPT !.fn = "minutesBetween",
                            !.result = minutesBetween(calc.start, calc.end)]
    /\ UNCHANGED appVars

-----------------------------------------------------------------------------
(* Inputs *)

\* Minutes of the hour the time inputs are drawn with; every hour is drawn.
MinuteSamples == {0, 15, 30, 35, 59}

ClockTimes == {T(h, m) : h \in 0..(HoursPerDay - 1), m \in MinuteSamples}

\* The parts other strings are built from: "", text that is no numeral,
\* "14", "35".
PartSamples == {PEmpty, PJunk, PNum(14), PNum(35)}

\* The most parts (separated by ':') a drawn string has.
MaxParts == 3

\* undefined (no parts), "", "abc", "14", "14:", ":35", "ab:35", "14:cd",
\* "14:35:14", ... and "24:00", "12:60", "1435"
OtherTimeStrs ==
    UNION {[1..k -> PartSamples] : k \in 0..MaxParts}
        \cup {T(24, 0), T(12, 60), <<PNum(1435)>>}

TimeStrs == ClockTimes \cup OtherTimeStrs

\* What the time inputs of the forms are left with: "08:00", "09:00", "ab:cd"
TimeInputs == {T(8, 0), T(9, 0), <<PJunk, PJunk>>}

DateInputs == {"", "2024-01-05"}

\* Number(e.target.value) of the rate input: 0, 16.666
RateInputs == {N(0), D(16666)}

\* The text of the amount-received input: "", "abc", "1200"
ReceivedInputs == {PEmpty, PJunk, PNum(1200)}

\* Settings files: { "ratePerMinute": "abc" }
SettingsFiles == {ObjectFile([ratePerMinute |-> NaN])}

-----------------------------------------------------------------------------
(* Specifications *)

\* The ids the store hands out to new customer documents.
CustomerIds == {"c1", "c2"}

\* The text typed as the name of a new customer: "", " ", " Ali "
NameTexts == {"", " ", " Ali "}

\* What prompt('Customer name') returns: null (cancelled), "", " ", "Bilal"
PromptTexts == {Null, "", " ", "Bilal"}

\* The text typed into the delete dialog.
ConfirmTexts == {"", "Ali", "Bilal"}

\* Settings files: {"ratePerMinute": 20}, {"businessName": "Aqua"},
\* {"ratePerMinute": 25, "theme": "dark"}, and text that is not JSON.
ImportFiles ==
    {ObjectFile([ratePerMinute |-> N(20)]),
     ObjectFile([businessName |-> "Aqua"]),
     ObjectFile([ratePerMinute |-> N(25), theme |-> "dark"]),
     InvalidFile}

\* The rate typed into the settings form: 20, 30
SettingsRates == {N(20), N(30)}

\* The passwords typed into the sign-up form.
Passwords == {"", "12345", "123456", "abcdef", "1234567"}

\* Signed amounts typed into the number inputs: -5 as rate, "-100" received.
SignedRates == {N(0 - 5), D(16666)}

SignedReceived == {PNum(0 - 100), PEmpty, PNum(1200)}

IdleCalc == [fn |-> "idle", start |-> Undefined, end |-> Undefined, result |-> N(0)]

\* A signed-in user with an empty account.
InitApp ==
    /\ user = "u1"
    /\ customers = <<>>
    /\ pendingAdds = {}
    /\ selectedCustomerId = Null
    /\ view = "invoices"
    /\ invoices = <<>>
    /\ usedIds = {}
    /\ settingsData = <<>>
    /\ editForms = <<>>
    /\ now = 0
    /\ lastOp = NoOp
    /\ customerToDelete = NullCustomer
    /\ dashboard = FetchedDashboard(<<>>, <<>>)
    /\ fetches = {}
    /\ register = InitialRegister
    /\ access = {}
    /\ accounts = [u \in Uids |-> EmptyAccount]
    /\ customerInvoices = <<>>
    /\ otherEditForms = <<>>

\* The pure helpers on every pair of time strings.
InitTime ==
    /\ InitApp
    /\ \E s \in TimeStrs, e \in TimeStrs :
          calc = [fn |-> "idle", start |-> s, end |-> e, result |-> N(0)]

NextTime == callParseTimeToMinutes \/ callMinutesBetween

SpecTime == InitTime /\ [][NextTime]_vars

\* One customer and one invoice through create, edit-save and delete.
InitBilling == InitApp /\ calc = IdleCalc

NextBilling ==
    \/ addCustomer("c1", "Ali", "")
    \/ addCustomerAck("c1")
    \/ selectCustomer("c1")
    \/ handleViewAllCustomers
    \/ setView("settings")
    \/ \E file \in SettingsFiles : importSettings(file)
    \/ \E d \in DateInputs, s \in TimeInputs, e \in TimeInputs,
          r \in RateInputs \cup {settings.ratePerMinute}, a \in ReceivedInputs :
          InvoiceFormSubmit("i1", d, s, e, r, a)
    \/ \E p \in DOMAIN invoices : startEdit(p)
    \/ \E p \in DOMAIN invoices : cancelEdit(p)
    \/ \E p \in DOMAIN invoices, d \in DateInputs, s \in TimeInputs,
          e \in TimeInputs, a \in ReceivedInputs : handleSave(p, d, s, e, a)
    \/ \E p \in DOMAIN invoices : deleteInvoice(p)
    \/ snapshot

SpecBilling == InitBilling /\ [][NextBilling]_vars

\* Customers added, renamed and deleted, with an invoice of the selected one.
NextCustomers ==
    \/ \E n \in NameTexts : addCustomer("c1", trim(n), "")
    \/ addCustomerAck("c1")
    \/ selectCustomer("c1")
    \/ handleViewAllCustomers
    \/ \E n \in PromptTexts : editCustomer("c1", n, "")
    \/ askDeleteCustomer("c1")
    \/ closeDeleteDialog
    \/ \E t \in ConfirmTexts : deleteCustomer(t)
    \/ InvoiceFormSubmit("i1", "2024-01-05", T(8, 0), T(9, 0),
                         settings.ratePerMinute, PEmpty)
    \/ \E f \in fetches : fetchReturn(f)
    \/ snapshot

SpecCustomers == InitBilling /\ [][NextCustomers]_vars

\* Settings saved and imported around one invoice.
NextSettings ==
    \/ addCustomer("c1", "Ali", "")
    \/ addCustomerAck("c1")
    \/ selectCustomer("c1")
    \/ setView("settings")
    \/ \E file \in ImportFiles : importSettings(file)
    \/ \E r \in SettingsRates :
          SettingsViewSave([settings EXCEPT !.ratePerMinute = r])
    \/ InvoiceFormSubmit("i1", "2024-01-05", T(8, 0), T(9, 0),
                         settings.ratePerMinute, PEmpty)
    \/ \E p \in DOMAIN invoices : startEdit(p)
    \/ \E p \in DOMAIN invoices, e \in {T(9, 0), T(8, 0)} :
          handleSave(p, "2024-01-05", T(8, 0), e, PNum(1200))
    \/ \E f \in fetches : fetchReturn(f)

SpecSettings == InitBilling /\ [][NextSettings]_vars

\* The sign-up form of a visitor who is not signed in.
InitRegister ==
    /\ user = NoUser
    /\ customers = <<>>
    /\ pendingAdds = {}
    /\ selectedCustomerId = Null
    /\ view = "invoices"
    /\ invoices = <<>>
    /\ usedIds = {}
    /\ settingsData = <<>>
    /\ editForms = <<>>
    /\ now = 0
    /\ lastOp = NoOp
    /\ customerToDelete = NullCustomer
    /\ dashboard = InitialDashboard
    /\ fetches = {}
    /\ register = InitialRegister
    /\ access = {}
    /\ accounts = [u \in Uids |-> EmptyAccount]
    /\ customerInvoices = <<>>
    /\ otherEditForms = <<>>
    /\ calc = IdleCalc

NextRegister ==
    \/ \E text \in Passwords : setPassword(text)
    \/ \E text \in Passwords : setConfirmPassword(text)
    \/ \E auth \in BOOLEAN : handleSignUp(auth)

SpecRegister == InitRegister /\ [][NextRegister]_vars

\* Two users signing in and out of one browser, each with their own data.
NextAuth ==
    \/ \E id \in CustomerIds : addCustomer(id, "Ali", "")
    \/ \E id \in CustomerIds : addCustomerAck(id)
    \/ \E c \in CustomerIds : selectCustomer(c)
    \/ handleViewAllCustomers
    \/ setView("settings")
    \/ importSettings(ObjectFile([ratePerMinute |-> N(20)]))
    \/ InvoiceFormSubmit("i1", "2024-01-05", T(8, 0), T(9, 0),
                         settings.ratePerMinute, PEmpty)
    \/ \E p \in DOMAIN invoices : deleteInvoice(p)
    \/ \E f \in fetches : fetchReturn(f)
    \/ handleSignOut
    \/ \E uid \in Uids : signIn(uid)
    \/ snapshot

SpecAuth == InitBilling /\ [][NextAuth]_vars

\* The dashboard over two customers and their invoices.
NextDashboard ==
    \/ \E id \in CustomerIds : addCustomer(id, "Ali", "")
    \/ \E id \in CustomerIds : addCustomerAck(id)
    \/ \E c \in CustomerIds : selectCustomer(c)
    \/ handleViewAllCustomers
    \/ InvoiceFormSubmit("i1", "2024-01-05", T(8, 0), T(9, 0),
                         settings.ratePerMinute, PEmpty)
    \/ InvoiceFormSubmit("i2", "2024-01-06", T(8, 0), T(9, 0),
                         settings.ratePerMinute, PNum(1200))
    \/ \E c \in CustomerIds : askDeleteCustomer(c)
    \/ deleteCustomer("Ali")
    \/ \E f \in fetches : fetchReturn(f)
    \/ Tick
    \/ snapshot

SpecDashboard == InitBilling /\ [][NextDashboard]_vars

\* Invoices created and edited with signed numbers in the number inputs.
NextAmounts ==
    \/ addCustomer("c1", "Ali", "")
    \/ addCustomerAck("c1")
    \/ selectCustomer("c1")
    \/ handleViewAllCustomers
    \/ \E r \in SignedRates, a \in SignedReceived :
          InvoiceFormSubmit("i1", "2024-01-05", T(8, 0), T(9, 0), r, a)
    \/ \E p \in DOMAIN invoices : startEdit(p)
    \/ \E p \in DOMAIN invoices, e \in {T(9, 0), T(8, 0)}, a \in SignedReceived :
          handleSave(p, "2024-01-05", T(8, 0), e, a)
    \/ \E p \in DOMAIN invoices : deleteInvoice(p)
    \/ \E f \in fetches : fetchReturn(f)
    \/ snapshot

SpecAmounts == InitBilling /\ [][NextAmounts]_vars

\* One invoice created, edited and deleted while the clock advances.
NextStamps ==
    \/ addCustomer("c1", "Ali", "")
    \/ addCustomerAck("c1")
    \/ selectCustomer("c1")
    \/ handleViewAllCustomers
    \/ InvoiceFormSubmit("i1", "2024-01-05", T(8, 0), T(9, 0),
                         settings.ratePerMinute, PEmpty)
    \/ \E p \in DOMAIN invoices : startEdit(p)
    \/ \E p \in DOMAIN invoices : cancelEdit(p)
    \/ \E p \in DOMAIN invoices, e \in {T(9, 0), <<PJunk, PJunk>>},
          a \in {PEmpty, PNum(1200)} : handleSave(p, "2024-01-06", T(8, 0), e, a)
    \/ \E p \in DOMAIN invoices : deleteInvoice(p)
    \/ \E f \in fetches : fetchReturn(f)
    \/ Tick
    \/ snapshot

SpecStamps == InitBilling /\ [][NextStamps]_vars

\* No delete dialog is open. The dialog is modal: while it is open, nothing
\* behind it takes the user's clicks.
DialogClosed == customerToDelete = NullCustomer

\* The text typed into the delete dialog: also "ali" and "Ali ".
TypedTexts == ConfirmTexts \cup {"ali", "Ali "}

\* A customer added, renamed and deleted through the modal delete dialog.
NextConfirm ==
    \/ DialogClosed /\ addCustomer("c1", "Ali", "")
    \/ addCustomerAck("c1")
    \/ DialogClosed /\ selectCustomer("c1")
    \/ DialogClosed /\ handleViewAllCustomers
    \/ DialogClosed /\ editCustomer("c1", "Bilal", "")
    \/ DialogClosed /\ askDeleteCustomer("c1")
    \/ closeDeleteDialog
    \/ \E t \in TypedTexts : deleteCustomer(t)
    \/ DialogClosed /\ InvoiceFormSubmit("i1", "2024-01-05", T(8, 0), T(9, 0),
                                         settings.ratePerMinute, PEmpty)
    \/ \E f \in fetches : fetchReturn(f)
    \/ snapshot

SpecConfirm == InitBilling /\ [][NextConfirm]_vars

\* Two invoices of one customer, the earlier-dated listed first, and the
\* Download PDF button.
NextExport ==
    \/ addCustomer("c1", "Ali", "")
    \/ addCustomerAck("c1")
    \/ selectCustomer("c1")
    \/ handleViewAllCustomers
    \/ InvoiceFormSubmit("i1", "2024-01-05", T(8, 0), T(9, 0),
                         settings.ratePerMinute, PEmpty)
    \/ InvoiceFormSubmit("i2", "2024-01-06", T(8, 0), T(9, 0),
                         settings.ratePerMinute, PNum(1200))
    \/ \E p \in DOMAIN invoices : deleteInvoice(p)
    \/ exportCustomerHistoryPDF
    \/ snapshot
    \/ \E f \in fetches : fetchReturn(f)

SpecExport == InitBilling /\ [][NextExport]_vars

\* Two customers, the invoices of one of them, and the selection switched
\* from one to the other while rows are listed.
NextSwitch ==
    \/ \E id \in CustomerIds : addCustomer(id, "Ali", "")
    \/ \E id \in CustomerIds : addCustomerAck(id)
    \/ \E c \in CustomerIds : selectCustomer(c)
    \/ handleViewAllCustomers
    \/ InvoiceFormSubmit("i1", "2024-01-05", T(8, 0), T(9, 0),
                         settings.ratePerMinute, PEmpty)
    \/ \E p \in Keys(customerInvoices) : startEdit(p)
    \/ \E p \in DOMAIN editForms :
          handleSave(p, "2024-01-06", T(8, 0), T(9, 0), PNum(1200))
    \/ \E p \in Keys(customerInvoices) : deleteInvoice(p)
    \/ snapshot
    \/ \E f \in fetches : fetchReturn(f)

SpecSwitch == InitBilling /\ [][NextSwitch]_vars

\* One invoice edited, saved and deleted from two tabs of the same user.
NextTabs ==
    \/ addCustomer("c1", "Ali", "")
    \/ addCustomerAck("c1")
    \/ selectCustomer("c1")
    \/ handleViewAllCustomers
    \/ InvoiceFormSubmit("i1", "2024-01-05", T(8, 0), T(9, 0),
                         settings.ratePerMinute, PEmpty)
    \/ \E p \in Keys(customerInvoices) : startEdit(p)
    \/ \E p \in DOMAIN editForms, e \in {T(9, 0), <<PJunk, PJunk>>} :
          handleSave(p, "2024-01-07", T(8, 0), e, PEmpty)
    \/ \E p \in Keys(customerInvoices) : deleteInvoice(p)
    \/ snapshot
    \/ \E p \in DOMAIN invoices : otherStartEdit(p)
    \/ \E p \in DOMAIN otherEditForms, e \in {T(8, 0), <<PJunk, PJunk>>} :
          otherHandleSave(p, "2024-01-06", T(9, 0), e, PNum(1200))
    \/ \E p \in DOMAIN invoices : otherDeleteInvoice(p)
    \/ \E f \in fetches : fetchReturn(f)

SpecTabs == InitBilling /\ [][NextTabs]_vars

-----------------------------------------------------------------------------
(* Properties of the time helpers, under SpecTime *)

\* The three kinds of malformed time string: no colon ("1435", "abc"),
\* a non-numeric hour or minute part ("ab:35", "14:cd"), a missing minute
\* part ("14:").
NoColon(t) == Len(t) = 1 /\ t # EmptyStr

NonNumericPart(t) == Len(t) >= 2 /\ (t[1].k = "junk" \/ t[2].k = "junk")

MissingMinute(t) == Len(t) = 2 /\ t[2] = PEmpty

Malformed(t) == NoColon(t) \/ NonNumericPart(t) \/ MissingMinute(t)

\* C1: for well-formed start and end, minutesBetween is end - start when
\* end >= start (0 when they are equal) and end - start + 1440 when
\* end < start, and is never negative.
C1_MinutesBetween ==
    (calc.fn = "minutesBetween" /\ WellFormed(calc.start) /\ WellFormed(calc.end)) =>
        LET s == ClockMinutes(calc.start)
            e == ClockMinutes(calc.end)
        IN  /\ ~calc.result.nan
            /\ calc.result.v >= 0
            /\ calc.result.v = 1000 * (IF e >= s THEN e - s ELSE e - s + 1440)
            /\ (s = e => calc.result.v = 0)

\* 23:30 to 00:15 crosses midnight: 45 minutes.
C1_Witness ==
    /\ calc.fn = "minutesBetween"
    /\ calc.start = T(23, 30)
    /\ calc.end = T(0, 15)
    /\ calc.result = N(45)

\* C2: parseTimeToMinutes of a well-formed "HH:MM" is 60*HH + MM, within
\* 0..1439; of "" and of undefined it is 0.
C2_ParseWellFormed ==
    calc.fn = "parseTimeToMinutes" =>
        /\ WellFormed(calc.start) =>
              /\ ~calc.result.nan
              /\ calc.result.v = 1000 * (60 * calc.start[1].v + calc.start[2].v)
              /\ calc.result.v \in 0..(1439 * 1000)
        /\ (calc.start = EmptyStr \/ calc.start = Undefined) => calc.result = N(0)

\* "14:35" is 875.
C2_Witness ==
    /\ calc.fn = "parseTimeToMinutes"
    /\ calc.start = T(14, 35)
    /\ calc.result = N(875)

\* C3 as claimed: parseTimeToMinutes of a malformed time string is 0.
C3_MalformedIsZero ==
    (calc.fn = "parseTimeToMinutes" /\ Malformed(calc.start)) => calc.result = N(0)

\* C3 as amended: parseTimeToMinutes of a string with no colon or with a
\* non-numeric hour or minute part is NaN, and of "HH:" it is 60*HH; the 0
\* is minutesBetween's, which returns 0 when either time parses to NaN.
C3_MalformedIsNaN ==
    /\ (calc.fn = "parseTimeToMinutes" /\ (NoColon(calc.start) \/ NonNumericPart(calc.start)))
          => calc.result.nan
    /\ (calc.fn = "parseTimeToMinutes" /\ MissingMinute(calc.start) /\ calc.start[1].k = "num")
          => calc.result = N(60 * calc.start[1].v)
    /\ (calc.fn = "minutesBetween"
          /\ (NoColon(calc.start) \/ NonNumericPart(calc.start)
              \/ NoColon(calc.end) \/ NonNumericPart(calc.end)))
          => calc.result = N(0)

\* "14:cd" parses to NaN.
C3_Witness ==
    /\ calc.fn = "parseTimeToMinutes"
    /\ calc.start = <<PNum(14), PJunk>>
    /\ calc.result.nan

-----------------------------------------------------------------------------
(* Properties of the invoice handlers, under SpecBilling *)

LastWasSave == lastOp.kind = "create" \/ lastOp.kind = "editSave"

\* C4: every persisted invoice has totalCost = round(durationMinutes x
\* ratePerMinute), to the nearest whole unit with halves up (NaN when the
\* stored rate is not a number).
C4_TotalCostDerived ==
    \A p \in DOMAIN invoices :
        LET inv == invoices[p] IN
        IF inv.durationMinutes.nan \/ inv.ratePerMinute.nan
        THEN inv.totalCost.nan
        ELSE LET exact == (inv.durationMinutes.v \div 1000) * inv.ratePerMinute.v
             IN  /\ ~inv.totalCost.nan
                 /\ inv.totalCost.v % 1000 = 0
                 /\ inv.totalCost.v - exact > -500
                 /\ inv.totalCost.v - exact <= 500

\* An edit-save left 60 minutes at 16.666: 999.96 rounds to 1000.
C4_Witness ==
    /\ lastOp.kind = "editSave" /\ lastOp.wrote
    /\ lastOp.target \in DOMAIN invoices
    /\ invoices[lastOp.target].durationMinutes = N(60)
    /\ invoices[lastOp.target].ratePerMinute = D(16666)
    /\ invoices[lastOp.target].totalCost = N(1000)

\* C5: every persisted invoice has amountPending = totalCost - amountReceived,
\* negative when more was received than the total.
C5_PendingDerived ==
    \A p \in DOMAIN invoices :
        LET inv == invoices[p] IN
        IF inv.totalCost.nan \/ inv.amountReceived.nan
        THEN inv.amountPending.nan
        ELSE /\ ~inv.amountPending.nan
             /\ inv.amountPending.v = inv.totalCost.v - inv.amountReceived.v

\* totalCost 1000, received 1200, pending -200.
C5_Witness ==
    /\ lastOp.kind = "editSave" /\ lastOp.wrote
    /\ lastOp.target \in DOMAIN invoices
    /\ invoices[lastOp.target].totalCost = N(1000)
    /\ invoices[lastOp.target].amountReceived = N(1200)
    /\ invoices[lastOp.target].amountPending = N(0 - 200)

\* C6: every persisted invoice has durationMinutes = minutesBetween(startTime,
\* endTime): a write of the times carries the duration derived from them.
C6_DurationDerived ==
    \A p \in DOMAIN invoices :
        invoices[p].durationMinutes =
            minutesBetween(invoices[p].startTime, invoices[p].endTime)

\* An edit-save moved the times to 09:00 - 08:00: 1380 minutes.
C6_Witness ==
    /\ lastOp.kind = "editSave" /\ lastOp.wrote
    /\ lastOp.target \in DOMAIN invoices
    /\ invoices[lastOp.target].startTime = T(9, 0)
    /\ invoices[lastOp.target].endTime = T(8, 0)
    /\ invoices[lastOp.target].durationMinutes = N(1380)

\* C7 as claimed: a create or edit-save whose ratePerMinute is <= 0 or not a
\* number writes nothing.
C7_BadRateRejected ==
    (LastWasSave /\ (lastOp.input.ratePerMinute.nan \/ lastOp.input.ratePerMinute.v <= 0))
        => ~lastOp.wrote

\* C8: a create, or an edit-save that passes the rate check, whose
\* amountReceived input is not a number ("" or other text) is written, with
\* amountReceived = 0 and amountPending = totalCost.
C8_ReceivedDefaultsToZero ==
    (/\ LastWasSave
     /\ lastOp.input.amountReceived.k # "num"
     /\ (lastOp.kind = "editSave" =>
            (~lastOp.input.ratePerMinute.nan /\ lastOp.input.ratePerMinute.v > 0)))
        => /\ lastOp.wrote
           /\ lastOp.target \in DOMAIN invoices
           /\ invoices[lastOp.target].amountReceived = N(0)
           /\ invoices[lastOp.target].amountPending = invoices[lastOp.target].totalCost

\* A create with the text "abc" as amount received: 0 received, 1000 pending.
C8_Witness ==
    /\ lastOp.kind = "create" /\ lastOp.wrote
    /\ lastOp.input.amountReceived = PJunk
    /\ invoices[lastOp.target].amountReceived = N(0)
    /\ invoices[lastOp.target].totalCost = N(1000)
    /\ invoices[lastOp.target].amountPending = N(1000)

\* C9 as claimed: a create or edit-save with a malformed startTime or endTime
\* writes nothing.
C9_MalformedTimeBlocked ==
    (LastWasSave /\ (Malformed(lastOp.input.startTime) \/ Malformed(lastOp.input.endTime)))
        => ~lastOp.wrote

\* C10 as claimed: an invoice is created only with a customer selected and
\* with date, startTime and endTime all non-empty.
C10_CreateOnlyValidated ==
    (lastOp.kind = "create" /\ lastOp.wrote) =>
        /\ selectedCustomer # Null
        /\ lastOp.input.date # ""
        /\ ~Falsy(lastOp.input.startTime)
        /\ ~Falsy(lastOp.input.endTime)

-----------------------------------------------------------------------------
(* Properties of the customer handlers, under SpecCustomers *)

\* C11 as claimed: after a confirmed deleteCustomer(c) the customer record c
\* is gone and no invoice of c remains in the store.
C11_DeleteCascades ==
    (lastOp.kind = "deleteCustomer" /\ lastOp.wrote) =>
        /\ lastOp.target \notin DOMAIN customers
        /\ \A p \in DOMAIN invoices : p[1] # lastOp.target

\* C19: every stored customer has a non-empty name, and an add or edit whose
\* name is empty (or a cancelled prompt) writes nothing.
C19_NamesNonEmpty ==
    /\ \A c \in DOMAIN customers : customers[c].name # ""
    /\ ((lastOp.kind = "addCustomer" \/ lastOp.kind = "editCustomer")
            /\ (lastOp.input.name = "" \/ lastOp.input.name = Null))
          => ~lastOp.wrote

\* An edit of customer Ali with an empty name was blocked.
C19_Witness ==
    /\ lastOp.kind = "editCustomer"
    /\ lastOp.input.name = ""
    /\ ~lastOp.wrote
    /\ "c1" \in DOMAIN customers
    /\ customers["c1"].name = "Ali"

-----------------------------------------------------------------------------
(* Properties of the settings handlers, under SpecSettings *)

\* C12: a settings save or import leaves the persisted invoices as they are,
\* and an edit-save of an invoice writes back the ratePerMinute it had stored.
C12_RateFrozen ==
    [][/\ (lastOp'.kind = "saveSettings" \/ lastOp'.kind = "importSettings")
             => invoices' = invoices
       /\ (lastOp'.kind = "editSave" /\ lastOp'.wrote)
             => /\ lastOp'.target \in DOMAIN invoices
                /\ invoices'[lastOp'.target].ratePerMinute =
                       invoices[lastOp'.target].ratePerMinute]_vars

\* An edit-save kept 16.666 after the settings rate had become 20.
C12_Witness ==
    /\ lastOp.kind = "editSave" /\ lastOp.wrote
    /\ lastOp.target \in DOMAIN invoices
    /\ invoices[lastOp.target].ratePerMinute = D(16666)
    /\ invoices[lastOp.target].amountReceived = N(1200)
    /\ settings.ratePerMinute = N(20)

\* C13: importing an object sets the settings keys it holds and leaves the
\* other settings keys at their prior values.
C13_ImportMerges ==
    [][(lastOp'.kind = "importSettings" /\ lastOp'.input.json = "object")
          => \A k \in DOMAIN defaultSettings :
                settings'[k] = IF k \in DOMAIN lastOp'.input.value
                               THEN lastOp'.input.value[k]
                               ELSE settings[k]]_vars

\* {"ratePerMinute": 20} was imported over a stored business name "Aqua".
C13_Witness ==
    /\ lastOp.kind = "importSettings"
    /\ lastOp.input = ObjectFile([ratePerMinute |-> N(20)])
    /\ settings.businessName = "Aqua"
    /\ settings.ratePerMinute = N(20)
    /\ settings.businessContact = defaultSettings.businessContact

\* C14 as claimed: the stored and the effective settings hold no key other
\* than ratePerMinute, businessName, businessContact and businessAddress.
C14_UnknownKeysIgnored ==
    /\ DOMAIN settingsData \subseteq DOMAIN defaultSettings
    /\ DOMAIN settings \subseteq DOMAIN defaultSettings

\* C15: importing a file that is not JSON alerts "Invalid settings file.",
\* writes nothing and leaves the stored settings unchanged.
C15_InvalidFileRejected ==
    [][(lastOp'.kind = "importSettings" /\ lastOp'.input.json = "invalid")
          => /\ settingsData' = settingsData
             /\ access' = access
             /\ ~lastOp'.wrote
             /\ lastOp'.alert = "Invalid settings file."]_vars

\* An invalid file was imported over stored settings.
C15_Witness ==
    /\ lastOp.kind = "importSettings"
    /\ lastOp.input = InvalidFile
    /\ lastOp.alert = "Invalid settings file."
    /\ "businessName" \in DOMAIN settingsData
    /\ settingsData.businessName = "Aqua"

-----------------------------------------------------------------------------
(* Properties of the sign-up form, under SpecRegister *)

\* C16: a sign-up request is sent only with a password of at least 6
\* characters that equals the confirmation; otherwise an error message is
\* set and no request is sent.
C16_SignUpChecked ==
    /\ \A password \in register.requests : Len(password) >= 6
    /\ lastOp.kind = "signUp" =>
          LET ok == /\ Len(lastOp.input.password) >= 6
                    /\ lastOp.input.password = lastOp.input.confirmPassword
          IN  /\ lastOp.wrote => ok
              /\ ~ok => (~lastOp.wrote /\ register.error # "")

\* "12345" typed twice: the request was not sent, the length error is shown.
C16_Witness ==
    /\ lastOp.kind = "signUp"
    /\ lastOp.input.password = "12345"
    /\ lastOp.input.confirmPassword = "12345"
    /\ ~lastOp.wrote
    /\ register.error = "Password must be at least 6 characters long."
    /\ "123456" \in register.requests

-----------------------------------------------------------------------------
(* Properties of the stored amounts, under SpecAmounts *)

\* C20 as claimed: every persisted invoice has durationMinutes >= 0,
\* totalCost >= 0 and amountReceived >= 0.
C20_AmountsNonNegative ==
    \A p \in DOMAIN invoices :
        /\ jsGeq(invoices[p].durationMinutes, N(0))
        /\ jsGeq(invoices[p].totalCost, N(0))
        /\ jsGeq(invoices[p].amountReceived, N(0))

-----------------------------------------------------------------------------
(* Properties of the signed-in user's data, under SpecAuth *)

\* The main content: InvoicesView, DashboardView, SettingsView, the delete
\* dialog and the edit forms.
MainContentShown ==
    \/ InvoicesViewShown
    \/ DashboardShown
    \/ customerToDelete # NullCustomer
    \/ DOMAIN editForms # {}
    \/ pendingAdds # {}

\* C17 as claimed: every read and write is of a path under users/{uid} of
\* the user signed in at the time, and while no user is signed in nothing is
\* read or written and the main content is not shown.
C17_PerUserPaths ==
    /\ \A a \in access :
          /\ a.by # NoUser
          /\ a.path[1] = "users"
          /\ a.path[2] = a.by
    /\ user = NoUser => ~MainContentShown

-----------------------------------------------------------------------------
(* Properties of the dashboard, under SpecDashboard *)

\* The stored invoices of the customers in the list.
ListedInvoices == {p \in DOMAIN invoices : p[1] \in DOMAIN customers}

\* The sum of a field over a set of stored invoices.
RECURSIVE SumOver(_, _)
SumOver(ps, field) ==
    IF ps = {} THEN N(0)
    ELSE LET p == CHOOSE q \in ps : TRUE
         IN  jsAdd(invoices[p][field], SumOver(ps \ {p}, field))

\* Row i of the recent list shows the stored invoice p.
Shows(i, p) ==
    dashboard.recentInvoices[i] =
        Merge(invoices[p], [customerName |-> customers[p[1]].name])

\* C18 as claimed: when a fetch has completed, totalReceived and totalPending
\* are the sums over the invoices of the listed customers, totalInvoices is
\* their number, and the recent list holds the (at most 5) latest of them,
\* latest first.
C18_DashboardTotals ==
    (lastOp.kind = "fetchReturn" /\ lastOp.input.completed) =>
        LET recent == dashboard.recentInvoices
            n      == Cardinality(ListedInvoices)
        IN  /\ dashboard.stats.totalReceived = SumOver(ListedInvoices, "amountReceived")
            /\ dashboard.stats.totalPending = SumOver(ListedInvoices, "amountPending")
            /\ dashboard.stats.totalInvoices = n
            /\ Len(recent) = (IF n < 5 THEN n ELSE 5)
            /\ \A i \in 1..Len(recent) : \E p \in ListedInvoices : Shows(i, p)
            /\ \A i \in 1..Len(recent), j \in 1..Len(recent) :
                  i < j => recent[i].createdAt >= recent[j].createdAt
            /\ \A p \in ListedInvoices :
                  \/ \E i \in 1..Len(recent) : Shows(i, p)
                  \/ invoices[p].createdAt <= recent[Len(recent)].createdAt

-----------------------------------------------------------------------------
(* Further properties of the settings, the selection and the dashboard *)

\* C21 as claimed: the effective settings.ratePerMinute is a number greater
\* than 0, whatever has been saved or imported.
C21_RatePositive ==
    /\ ~isNaN(settings.ratePerMinute)
    /\ settings.ratePerMinute.v > 0

\* C25 as claimed: selectedCustomerId is null or the id of a customer in the
\* customers list.
C25_SelectionListed ==
    selectedCustomerId = Null \/ selectedCustomerId \in DOMAIN customers

\* allInvoices as one call of fetchData over the present customers and
\* invoices gathers it.
RECURSIVE Gathered(_)
Gathered(todo) ==
    IF todo = <<>> THEN <<>>
    ELSE LET docs == getDocs(invoices, todo[1], 1)
         IN  [i \in 1..Len(docs) |->
                 Merge(docs[i], [customerName |-> customers[todo[1]].name])]
             \o Gathered(Tail(todo))

\* C26 as claimed: with the dashboard shown and every fetch it started
\* returned, the statistics and the recent list are those of the latest
\* customers list.
C26_LatestListShown ==
    (DashboardShown /\ \A f \in fetches : ~f.live) =>
        dashboard = FetchedDashboard(customers, Gathered(Walk(customers, 1)))

\* C28: an invoice that appears in the store has createdAt and updatedAt at
\* the time of its creation; an edit-save that is written sets updatedAt to
\* the time of the save; no step changes the createdAt or the customerId of a
\* stored invoice; every stored invoice has updatedAt >= createdAt.
C28_Stamps ==
    [][/\ \A p \in (DOMAIN invoices') \ (DOMAIN invoices) :
              /\ invoices'[p].createdAt = now
              /\ invoices'[p].updatedAt = now
       /\ \A p \in (DOMAIN invoices') \cap (DOMAIN invoices) :
              /\ invoices'[p].createdAt = invoices[p].createdAt
              /\ invoices'[p].customerId = invoices[p].customerId
              /\ invoices'[p] # invoices[p] => invoices'[p].updatedAt = now
       /\ (lastOp' # lastOp /\ lastOp'.kind = "editSave" /\ lastOp'.wrote
              /\ lastOp'.target \in DOMAIN invoices) =>
              invoices'[lastOp'.target].updatedAt = now
       /\ \A p \in DOMAIN invoices' :
              invoices'[p].updatedAt >= invoices'[p].createdAt]_vars

\* An invoice created at one time and edit-saved at a later time.
C28_Witness ==
    /\ lastOp.kind = "editSave"
    /\ lastOp.wrote
    /\ lastOp.target \in DOMAIN invoices
    /\ invoices[lastOp.target].updatedAt > invoices[lastOp.target].createdAt
    /\ invoices[lastOp.target].date = "2024-01-06"

\* C22: a customer leaves the store only by a deleteCustomer step taken
\* while the delete dialog for that customer is open and the typed text is
\* the customer's name; closing the dialog changes neither the customers nor
\* the invoices.
C22_DeleteConfirmed ==
    [][/\ \A c \in (DOMAIN customers) \ (DOMAIN customers') :
              /\ lastOp'.kind = "deleteCustomer"
              /\ lastOp'.target = c
              /\ customerToDelete.id = c
              /\ lastOp'.input.confirmationText = customers[c].name
       /\ (lastOp' # lastOp /\ lastOp'.kind = "deleteCustomer" /\ lastOp'.wrote) =>
              /\ customerToDelete # NullCustomer
              /\ lastOp'.target = customerToDelete.id
              /\ lastOp'.target \in DOMAIN customers
              /\ lastOp'.input.confirmationText = customers[lastOp'.target].name
       /\ (lastOp' # lastOp /\ lastOp'.kind = "closeDeleteDialog") =>
              /\ customers' = customers
              /\ invoices' = invoices]_vars

\* The renamed customer deleted after its new name was typed.
C22_Witness ==
    /\ lastOp.kind = "deleteCustomer"
    /\ lastOp.wrote
    /\ lastOp.input.confirmationText = "Bilal"
    /\ lastOp.target \notin DOMAIN customers
    /\ customerToDelete = NullCustomer

\* C29 as claimed: an export produces its rows latest date first and leaves
\* the customerInvoices list, in its elements and their order, and the stored
\* invoices as they were.
C29_ExportReadOnly ==
    [][(lastOp' # lastOp /\ lastOp'.kind = "exportPDF") =>
          /\ \A i \in 1..Len(lastOp'.input.rows), j \in 1..Len(lastOp'.input.rows) :
                 i < j => ~(getTime(lastOp'.input.rows[i].date).v
                              < getTime(lastOp'.input.rows[j].date).v)
          /\ customerInvoices' = customerInvoices
          /\ invoices' = invoices
          /\ customers' = customers]_vars

\* C27 as claimed: every stored invoice has the customerId of the customer
\* it is stored under, and an edit-save or delete of a listed invoice is
\* addressed to the invoices subcollection of the customer the invoice
\* belongs to.
C27_OwnSubcollection ==
    /\ \A p \in DOMAIN invoices : invoices[p].customerId = p[1]
    /\ (lastOp.kind \in {"editSave", "delete"} /\ lastOp.wrote) =>
          lastOp.path = <<"users", lastOp.path[2], "customers", lastOp.target[1],
                          "invoices", lastOp.target[2]>>

-----------------------------------------------------------------------------
(* Properties of two tabs writing the same invoice, under SpecTabs *)

\* C23: an invoice id that has been handed out and has no document in the
\* store (its invoice was deleted) has none after any step, an edit-save from
\* a form opened before the delete included.
C23_DeletedStaysDeleted ==
    [][\A i \in usedIds :
          (\A p \in DOMAIN invoices : p[2] # i) =>
              (\A p \in DOMAIN invoices' : p[2] # i)]_vars

\* The other tab saved a form it had opened on an invoice that this tab
\* deleted in between: the update was sent and no document exists.
C23_Witness ==
    /\ lastOp.kind = "otherSave"
    /\ lastOp.wrote
    /\ lastOp.before = <<>>
    /\ lastOp.opened.date = "2024-01-05"
    /\ lastOp.target[2] \in usedIds
    /\ lastOp.target \notin DOMAIN invoices

\* C24: when an edit-save of either tab is applied to an existing invoice,
\* the stored date, times, rate and amountReceived are those of that save,
\* and duration, total and pending are the ones computed from them.
C24_LastWriterWins ==
    [][(/\ lastOp' # lastOp
        /\ lastOp'.kind \in {"editSave", "otherSave"}
        /\ lastOp'.wrote
        /\ lastOp'.target \in DOMAIN invoices') =>
          LET inv   == invoices'[lastOp'.target]
              typed == lastOp'.input
          IN  /\ inv.date = typed.date
              /\ inv.startTime = typed.startTime
              /\ inv.endTime = typed.endTime
              /\ inv.ratePerMinute = typed.ratePerMinute
              /\ inv.amountReceived = roundAbout(jsOrZero(Number(typed.amountReceived)))
              /\ inv.durationMinutes = minutesBetween(inv.startTime, inv.endTime)
              /\ inv.totalCost = roundAbout(jsMul(inv.durationMinutes, inv.ratePerMinute))
              /\ inv.amountPending = jsSub(inv.totalCost, inv.amountReceived)]_vars

\* The other tab opened its form on the invoice as created, this tab saved
\* its edit, and then the other tab's save was applied over it.
C24_Witness ==
    /\ lastOp.kind = "otherSave"
    /\ lastOp.wrote
    /\ lastOp.opened.date = "2024-01-05"
    /\ lastOp.before # <<>>
    /\ lastOp.before.date = "2024-01-07"
    /\ lastOp.target \in DOMAIN invoices
    /\ invoices[lastOp.target].date = "2024-01-06"
    /\ invoices[lastOp.target].amountReceived = N(1200)

=============================================================================
